---- MODULE Spec2Model ----
(***************************************************************************)
(* Story Tracker newsletter: the article selection engine with category   *)
(* fallback (src/src/models/article.py), the article store and the send   *)
(* ledger (src/src/models/database.py) and the campaign loop that drives   *)
(* them (src/src/services/email_service.py).                               *)
(***************************************************************************)
EXTENDS Integers, Sequences, FiniteSets, TLC

VARIABLES
    articles,             \* table articles: row id = index
    subscribers,          \* table subscribers: row id = index; a deleted row stays,
                          \* marked, as AUTOINCREMENT never gives its id again
    article_sends,        \* table article_sends: rows in insertion order
    email_campaigns,      \* table email_campaigns: row id = index
    admin_settings,       \* table admin_settings (the keys the engine is told about)
    last_fallback_usage,  \* ArticleSelector.last_fallback_usage: the topics flagged True
    sel,                  \* the last SelectionResult with its call's arguments, kept until
                          \* the next write to the store or the end of its send
    run,                  \* position and locals of send_newsletter_campaign
    now,                  \* the database clock (CURRENT_TIMESTAMP), in seconds
    ret,                  \* the value the step just taken handed back to its caller, for
                          \* the operations whose value is looked at
    other,                \* position and locals of a send_newsletter_campaign running
                          \* in another thread, with an EmailService of its own
    scheduler             \* SchedulerService: is_running and the threads it started

vars == <<articles, subscribers, article_sends, email_campaigns, admin_settings,
          last_fallback_usage, sel, run, now, ret, other, scheduler>>

-----------------------------------------------------------------------------
(* Bounds of the model *)

MaxArticles == 2          \* rows add_article may create in the campaign specification
MaxCampaigns == 2         \* campaigns one behaviour creates
MaxPerTopic == 2          \* the small articles_per_category values of a direct call
MaxExcluded == 1          \* rows excluded at once in the selection specification
MaxSmall == 2             \* articles per issue area in the small pools
MaxRounds == 1            \* selections recorded by direct calls in one behaviour
MaxBack == 2              \* how far back from the newest row an exclusion reaches
MaxResubscribes == 1      \* add_subscriber calls of one behaviour
MaxLookup == 4            \* the largest max_fallbacks of a lookup
MaxKeep == 1              \* the largest days_to_keep of a cleanup
MaxThreads == 3           \* scheduler threads started in one behaviour

(* Program constants *)

PoolLimit == 10           \* LIMIT 10 of the fresh-articles query
DefaultMaxFallbacks == 3  \* max_fallbacks: int = 3
DefaultPerCategory == 1   \* articles_per_category: int = 1

-----------------------------------------------------------------------------
(* Helpers on sequences *)

Min(a, b) == IF a <= b THEN a ELSE b

Range(s) == {s[i] : i \in 1..Len(s)}

\* Python slice s[:n] for n >= 0
Take(s, n) == SubSeq(s, 1, Min(n, Len(s)))

-----------------------------------------------------------------------------
(* FallbackManager *)

FALLBACK_MAPPING ==
    ("Health" :> <<"Mental Health", "Community Development">>) @@
    ("Mental Health" :> <<"Health", "Social Services">>) @@
    ("Housing" :> <<"Economic Development", "Community Development">>) @@
    ("Environment" :> <<"Energy", "Agriculture", "Public Safety">>) @@
    ("Criminal Justice" :> <<"Public Safety", "Community Development", "Mental Health">>) @@
    ("Economic Development" :> <<"Housing", "Workforce Development", "Community Development">>) @@
    ("Democracy & Governance" :> <<"Public Safety", "Community Development">>) @@
    ("Immigration" :> <<"Social Services", "Community Development">>) @@
    ("Transportation" :> <<"Infrastructure", "Public Safety", "Environment">>) @@
    ("Food Security" :> <<"Agriculture", "Community Development", "Health">>) @@
    ("Community Development" :> <<"Social Services", "Economic Development">>) @@
    ("Technology" :> <<"Education", "Infrastructure">>) @@
    ("Energy" :> <<"Environment", "Infrastructure">>) @@
    ("Agriculture" :> <<"Food Security", "Environment", "Economic Development">>) @@
    ("Social Services" :> <<"Community Development", "Mental Health">>) @@
    ("Arts & Culture" :> <<"Community Development", "Education">>) @@
    ("Youth Development" :> <<"Education", "Community Development">>) @@
    ("Senior Services" :> <<"Health", "Social Services">>) @@
    ("Public Safety" :> <<"Criminal Justice", "Community Development">>) @@
    ("Infrastructure" :> <<"Transportation", "Economic Development">>) @@
    ("Workforce Development" :> <<"Economic Development", "Education">>)

AVAILABLE_ISSUE_AREAS ==
    {"Education", "Health", "Housing", "Environment", "Criminal Justice",
     "Economic Development", "Democracy & Governance", "Immigration", "Transportation",
     "Food Security", "Mental Health", "Community Development", "Technology",
     "Energy", "Agriculture", "Social Services", "Arts & Culture", "Youth Development",
     "Senior Services", "Public Safety", "Infrastructure", "Workforce Development"}

\* the lookup without its slice
get_fallback_categories_unsliced(primary_category, max_fallbacks) ==
    IF primary_category \in DOMAIN FALLBACK_MAPPING
    THEN FALLBACK_MAPPING[primary_category]
    ELSE <<>>

\* FALLBACK_MAPPING.get(primary_category, [])[:max_fallbacks]
get_fallback_categories(primary_category, max_fallbacks) ==
    Take(IF primary_category \in DOMAIN FALLBACK_MAPPING
            THEN FALLBACK_MAPPING[primary_category]
            ELSE <<>>,
         max_fallbacks)

get_all_related_categories(primary_category) ==
    <<primary_category>> \o get_fallback_categories(primary_category, DefaultMaxFallbacks)

-----------------------------------------------------------------------------
(* DatabaseManager: the fresh-articles query *)

\* a row of article_sends joins article a for subscriber sid
HasSendRow(sends, sid, a) ==
    \E k \in 1..Len(sends) : sends[k].subscriber_id = sid /\ sends[k].article_id = a

\* the query without its join on article_sends
FreshIdsIgnoringSends(arts, sends, sid, issue_area) ==
    {a \in 1..Len(arts) : arts[a].issue_area = issue_area /\ ~arts[a].excluded}

\* the query without its test of the excluded flag
FreshIdsIgnoringExcluded(arts, sends, sid, issue_area) ==
    {a \in 1..Len(arts) : arts[a].issue_area = issue_area /\ ~HasSendRow(sends, sid, a)}

\* a query that joins only the send records of campaigns marked sent
FreshIdsOfSentCampaigns(arts, sends, sid, issue_area) ==
    {a \in 1..Len(arts) :
        /\ arts[a].issue_area = issue_area
        /\ ~arts[a].excluded
        /\ ~\E k \in 1..Len(sends) :
               /\ sends[k].subscriber_id = sid /\ sends[k].article_id = a
               /\ email_campaigns[sends[k].campaign_id].status = "sent"}

\* a query whose join leaves out the subscriber: sent to anyone is not fresh
FreshIdsForAnyone(arts, sends, sid, issue_area) ==
    {a \in 1..Len(arts) :
        /\ arts[a].issue_area = issue_area
        /\ ~arts[a].excluded
        /\ ~\E k \in 1..Len(sends) : sends[k].article_id = a}

\* WHERE a.issue_area = ? AND a.excluded = 0 AND s.id IS NULL
FreshIds(arts, sends, sid, issue_area) ==
    {a \in 1..Len(arts) : /\ arts[a].issue_area = issue_area
                          /\ ~arts[a].excluded
                          /\ ~HasSendRow(sends, sid, a)}

\* ORDER BY a.scraped_at DESC; rows of equal scraped_at come out in rowid
\* order, the order in which SQLite scans the table
RowBefore(arts, a, b) ==
    \/ arts[a].scraped_at > arts[b].scraped_at
    \/ arts[a].scraped_at = arts[b].scraped_at /\ a <= b

RECURSIVE OrderRows(_, _)
OrderRows(arts, ids) ==
    IF ids = {} THEN <<>>
    ELSE LET first == CHOOSE a \in ids : \A b \in ids : RowBefore(arts, a, b)
         IN  <<first>> \o OrderRows(arts, ids \ {first})

\* the dict built from a fetched row
ArticleRow(arts, a) ==
    [id |-> a, url |-> arts[a].url, issue_area |-> arts[a].issue_area,
     scraped_at |-> arts[a].scraped_at]

FreshQuery(arts, sends, sid, issue_area) ==
    LET ordered == Take(OrderRows(arts, FreshIds(arts, sends, sid, issue_area)), PoolLimit)
    IN  [i \in 1..Len(ordered) |-> ArticleRow(arts, ordered[i])]

\* articles_by_category: one key per issue area asked for
get_fresh_articles_for_subscriber(arts, sends, subscriber_id, issue_areas) ==
    [c \in Range(issue_areas) |-> FreshQuery(arts, sends, subscriber_id, c)]

-----------------------------------------------------------------------------
(* Article.from_dict and ArticleSelector *)

\* Article.from_dict: the dict has no 'excluded' key, so the object gets False
from_dict(data) ==
    [id |-> data.id, url |-> data.url, issue_area |-> data.issue_area,
     scraped_at |-> data.scraped_at, excluded |-> FALSE]

FromDicts(rows) == [i \in 1..Len(rows) |-> from_dict(rows[i])]

\* articles_by_category.get(category, [])
DictGet(d, k) == IF k \in DOMAIN d THEN d[k] ELSE <<>>

\* the loop taking needed_count articles from each fallback category instead of
\* the remaining need
RECURSIVE FallbackLoopTakesNeeded(_, _, _, _, _)
FallbackLoopTakesNeeded(selected, fallback_categories, k, articles_by_category, needed_count) ==
    IF k > Len(fallback_categories) \/ Len(selected) >= needed_count
    THEN selected
    ELSE LET fallback_articles == DictGet(articles_by_category, fallback_categories[k])
         IN  FallbackLoopTakesNeeded(
                 selected \o FromDicts(Take(fallback_articles, needed_count)),
                 fallback_categories, k + 1, articles_by_category, needed_count)

\* the loop leaving after the first fallback category
FallbackLoopFirstOnly(selected, fallback_categories, k, articles_by_category, needed_count) ==
    IF k > Len(fallback_categories) \/ Len(selected) >= needed_count
    THEN selected
    ELSE LET fallback_articles == DictGet(articles_by_category, fallback_categories[k])
             remaining_needed == needed_count - Len(selected)
         IN  selected \o FromDicts(Take(fallback_articles, remaining_needed))

\* the loop over fallback_categories, from position k on
RECURSIVE FallbackLoop(_, _, _, _, _)
FallbackLoop(selected, fallback_categories, k, articles_by_category, needed_count) ==
    IF k > Len(fallback_categories) \/ Len(selected) >= needed_count
    THEN selected
    ELSE LET fallback_articles == DictGet(articles_by_category, fallback_categories[k])
             remaining_needed == needed_count - Len(selected)
         IN  FallbackLoop(selected \o FromDicts(Take(fallback_articles, remaining_needed)),
                          fallback_categories, k + 1, articles_by_category, needed_count)

\* the primary slice one short: primary_articles[:needed_count - 1]
get_articles_with_short_primary(arts, sends, subscriber_id, primary_category, needed_count) ==
    LET all_categories == get_all_related_categories(primary_category)
        articles_by_category ==
            get_fresh_articles_for_subscriber(arts, sends, subscriber_id, all_categories)
        primary_articles == DictGet(articles_by_category, primary_category)
        selected == FromDicts(Take(primary_articles, needed_count - 1))
    IN  FallbackLoop(selected,
                     get_fallback_categories(primary_category, DefaultMaxFallbacks),
                     1, articles_by_category, needed_count)

get_articles_with_fallback(arts, sends, subscriber_id, primary_category, needed_count) ==
    LET all_categories == get_all_related_categories(primary_category)
        articles_by_category ==
            get_fresh_articles_for_subscriber(arts, sends, subscriber_id, all_categories)
        primary_articles == DictGet(articles_by_category, primary_category)
        selected == FromDicts(Take(primary_articles, needed_count))
    IN  IF Len(selected) < needed_count
        THEN FallbackLoop(selected,
                          get_fallback_categories(primary_category, DefaultMaxFallbacks),
                          1, articles_by_category, needed_count)
        ELSE selected

\* selected_articles: the dict issue_area -> list of Article
select_articles_for_subscriber(arts, sends, subscriber_id, issue_areas, articles_per_category) ==
    [t \in Range(issue_areas) |->
        get_articles_with_fallback(arts, sends, subscriber_id, t, articles_per_category)]

\* fallback_used without the else branch of the empty list
FallbackUsedWhenMixed(selected_articles) ==
    {t \in DOMAIN selected_articles :
        \E i \in 1..Len(selected_articles[t]) : selected_articles[t][i].issue_area # t}

\* fallback_used: the keys set to True
FallbackUsed(selected_articles) ==
    {t \in DOMAIN selected_articles :
        LET arts_t == selected_articles[t]
            primary_articles == SelectSeq(arts_t, LAMBDA a : a.issue_area = t)
        IN  IF arts_t # <<>>
            THEN Len(primary_articles) < Len(arts_t)
            ELSE TRUE}

\* getattr(self, 'last_fallback_usage', {}).get(issue_area, False)
was_fallback_used(issue_area) == issue_area \in last_fallback_usage

\* the flags of this call added to those of the calls before
NextFallbackUsageMerged(selected_articles) ==
    last_fallback_usage \cup FallbackUsed(selected_articles)

\* self.last_fallback_usage = fallback_used: the dict of this call replaces the
\* one of the call before
NextFallbackUsage(selected_articles) == FallbackUsed(selected_articles)

-----------------------------------------------------------------------------
(* DatabaseManager: writes *)

\* the row of articles holding this url hash, 0 when there is none
\* the place of a row that DELETE removed: ids are AUTOINCREMENT and never
\* given out again, and no query matches the row
DeletedRow == [url |-> 0, issue_area |-> "", scraped_at |-> 0, excluded |-> TRUE]

ArticleByUrl(arts, url) ==
    IF \E a \in 1..Len(arts) : arts[a].url = url
    THEN CHOOSE a \in 1..Len(arts) : arts[a].url = url
    ELSE 0

\* an insert that overwrites the row of a url it finds
add_article_overwrite(arts, url, issue_area, at) ==
    IF ArticleByUrl(arts, url) = 0
    THEN Append(arts, [url |-> url, issue_area |-> issue_area,
                       scraped_at |-> at, excluded |-> FALSE])
    ELSE [arts EXCEPT ![ArticleByUrl(arts, url)] =
             [url |-> url, issue_area |-> issue_area, scraped_at |-> at,
              excluded |-> FALSE]]

\* INSERT OR IGNORE INTO articles: url_hash is UNIQUE, scraped_at and excluded
\* take their column defaults
add_article(arts, url, issue_area, at) ==
    IF ArticleByUrl(arts, url) = 0
    THEN Append(arts, [url |-> url, issue_area |-> issue_area,
                       scraped_at |-> at, excluded |-> FALSE])
    ELSE arts

\* UPDATE articles SET excluded = ? WHERE id = ?
exclude_article(arts, article_id, excluded) ==
    [a \in 1..Len(arts) |->
        IF a = article_id /\ arts[a] # DeletedRow
        THEN [arts[a] EXCEPT !.excluded = excluded]
        ELSE arts[a]]

\* DELETE FROM articles WHERE scraped_at < ?
\* AND id NOT IN (SELECT DISTINCT article_id FROM article_sends)
cleanup_old_articles(arts, sends, cutoff_date) ==
    [a \in 1..Len(arts) |->
        IF /\ arts[a] # DeletedRow
           /\ arts[a].scraped_at < cutoff_date
           /\ ~\E k \in 1..Len(sends) : sends[k].article_id = a
        THEN DeletedRow ELSE arts[a]]

\* a plain INSERT into a table without the UNIQUE constraint
record_article_send_plain(sends, subscriber_id, article_id, campaign_id) ==
    Append(sends, [subscriber_id |-> subscriber_id, article_id |-> article_id,
                   campaign_id |-> campaign_id])

\* INSERT OR REPLACE: the row of the pair is deleted and written again
record_article_send_replace(sends, subscriber_id, article_id, campaign_id) ==
    Append(SelectSeq(sends, LAMBDA r : ~(r.subscriber_id = subscriber_id
                                         /\ r.article_id = article_id)),
           [subscriber_id |-> subscriber_id, article_id |-> article_id,
            campaign_id |-> campaign_id])

\* INSERT OR IGNORE INTO article_sends, UNIQUE(subscriber_id, article_id)
record_article_send(sends, subscriber_id, article_id, campaign_id) ==
    IF HasSendRow(sends, subscriber_id, article_id)
    THEN sends
    ELSE Append(sends, [subscriber_id |-> subscriber_id, article_id |-> article_id,
                        campaign_id |-> campaign_id])

\* record_article_send for every article of a list, in order
RECURSIVE RecordAll(_, _, _, _)
RecordAll(sends, subscriber_id, chosen, campaign_id) ==
    IF chosen = <<>> THEN sends
    ELSE RecordAll(record_article_send(sends, subscriber_id, Head(chosen).id, campaign_id),
                   subscriber_id, Tail(chosen), campaign_id)

\* a campaign row that is created as sent
create_campaign_sent(campaigns, campaign_type) ==
    Append(campaigns, [campaign_type |-> campaign_type, status |-> "sent"])

\* INSERT INTO email_campaigns: status takes its default
create_campaign(campaigns, campaign_type) ==
    Append(campaigns, [campaign_type |-> campaign_type, status |-> "pending"])

\* UPDATE email_campaigns SET status = 'sent' WHERE id = ?
mark_campaign_sent(campaigns, campaign_id) ==
    [c \in 1..Len(campaigns) |->
        IF c = campaign_id THEN [campaigns[c] EXCEPT !.status = "sent"] ELSE campaigns[c]]

\* SELECT ... FROM subscribers WHERE active = 1 ORDER BY email, each row made
\* a Subscriber by from_dict
RECURSIVE OrderByEmail(_, _)
OrderByEmail(subs, ids) ==
    IF ids = {} THEN <<>>
    ELSE LET first == CHOOSE s \in ids : \A r \in ids : subs[s].email <= subs[r].email
         IN  <<[id |-> first, email |-> subs[first].email,
                issue_areas |-> subs[first].issue_areas]>>
             \o OrderByEmail(subs, ids \ {first})

get_all_active_subscribers(subs) ==
    OrderByEmail(subs, {s \in 1..Len(subs) : ~subs[s].deleted /\ subs[s].active})

\* SELECT ... FROM subscribers WHERE email = ?: the id of the row, 0 for None
get_subscriber_by_email(subs, email) ==
    IF \E s \in 1..Len(subs) : ~subs[s].deleted /\ subs[s].email = email
    THEN CHOOSE s \in 1..Len(subs) : ~subs[s].deleted /\ subs[s].email = email
    ELSE 0

\* INSERT OR REPLACE INTO subscribers: email is UNIQUE, so the row holding the
\* email is deleted and a new row is inserted, with the next id and active at
\* its default
add_subscriber(subs, email, issue_areas) ==
    Append([s \in 1..Len(subs) |->
               IF subs[s].email = email THEN [subs[s] EXCEPT !.deleted = TRUE] ELSE subs[s]],
           [email |-> email, issue_areas |-> issue_areas, active |-> TRUE,
            deleted |-> FALSE])

-----------------------------------------------------------------------------
(* The values the model draws its inputs from *)

\* issue areas given to scraped articles in the campaign specification
ArticleTopics == {"Health", "Mental Health"}

\* the two subscribers that signed up: the second stores one issue area twice
SignedUp ==
    <<[email |-> 1, issue_areas |-> <<"Health", "Mental Health", "Education">>,
       active |-> TRUE, deleted |-> FALSE],
      [email |-> 2, issue_areas |-> <<"Senior Services", "Health", "Health">>,
       active |-> TRUE, deleted |-> FALSE]>>

\* the article ids an admin may pick, the last one unknown to the store
ArticleIdInputs == 1..(MaxArticles + 1)

ManualLists == {<<1>>, <<1, 2>>, <<MaxArticles + 1>>}

NoSelection == [sub |-> 0, issue_areas |-> <<>>, apt |-> 0, res |-> [t \in {} |-> <<>>]]

\* selected_articles before the first key is set
NoArticles == [t \in {} |-> <<>>]

IdleRun == [pc |-> "idle", campaign_id |-> 0, manual_articles |-> <<>>, queue |-> <<>>,
            total |-> 0, cur |-> 0, selected |-> NoArticles, todo |-> <<>>, found |-> 0,
            successful_sends |-> 0, failed_sends |-> 0]

\* a loop that is left at the first subscriber whose processing fails
AfterSubscriberAborting(r, sent) ==
    [r EXCEPT !.pc = "loop", !.cur = 0, !.selected = NoArticles, !.todo = <<>>, !.found = 0,
              !.queue = IF sent THEN Tail(r.queue) ELSE <<>>,
              !.successful_sends = IF sent THEN r.successful_sends + 1
                                   ELSE r.successful_sends,
              !.failed_sends = IF sent THEN r.failed_sends ELSE r.failed_sends + 1]

\* the end of one pass of the for loop: successful_sends += 1 when an email was
\* generated and saved, failed_sends += 1 when html_content is None or an
\* exception was caught; the loop goes on with the next subscriber
AfterSubscriber(r, sent) ==
    [r EXCEPT !.pc = "loop", !.cur = 0, !.selected = NoArticles, !.todo = <<>>, !.found = 0,
              !.queue = Tail(r.queue),
              !.successful_sends = IF sent THEN r.successful_sends + 1
                                   ELSE r.successful_sends,
              !.failed_sends = IF sent THEN r.failed_sends ELSE r.failed_sends + 1]

\* SchedulerService.__init__: is_running = False, scheduler_thread = None; no
\* thread has been started
Stopped == [is_running |-> FALSE, scheduler_thread |-> 0, threads |-> <<>>]

\* the ids of the articles of a selected_articles dict
SelectedIds(selected_articles) ==
    UNION {{selected_articles[t][i].id : i \in 1..Len(selected_articles[t])} :
              t \in DOMAIN selected_articles}

\* _save_email_to_file for the subscriber run r is at: the file holds the
\* articles selected, unless writing it raised
SavedEmail(r, saved) ==
    [op |-> "_save_email_to_file", saved |-> saved, campaign_id |-> r.campaign_id,
     subscriber_id |-> r.cur, articles |-> SelectedIds(r.selected)]

\* no call has just returned
NoCall == [op |-> "none"]

\* the keys of a dict filled by going through the list, in insertion order
RECURSIVE DictKeys(_)
DictKeys(s) ==
    IF s = <<>> THEN <<>>
    ELSE LET rest == DictKeys(SubSeq(s, 1, Len(s) - 1))
         IN  IF s[Len(s)] \in Range(rest) THEN rest ELSE Append(rest, s[Len(s)])

\* for issue_area, articles in selected_articles.items(): for article in articles
RECURSIVE ItemsArticles(_, _)
ItemsArticles(selected_articles, keys) ==
    IF keys = <<>> THEN <<>>
    ELSE selected_articles[Head(keys)] \o ItemsArticles(selected_articles, Tail(keys))

\* a selector that passes over what its last call chose
SelectionAvoidingLast(subscriber_id, issue_areas, articles_per_category) ==
    [sub |-> subscriber_id, issue_areas |-> issue_areas, apt |-> articles_per_category,
     res |-> select_articles_for_subscriber(
                 articles,
                 RecordAll(article_sends, subscriber_id,
                           ItemsArticles(sel.res, DictKeys(sel.issue_areas)), 0),
                 subscriber_id, issue_areas, articles_per_category)]

\* the value select_articles_for_subscriber returns, with the arguments of the call
Selection(subscriber_id, issue_areas, articles_per_category) ==
    [sub |-> subscriber_id, issue_areas |-> issue_areas, apt |-> articles_per_category,
     res |-> select_articles_for_subscriber(articles, article_sends, subscriber_id,
                                            issue_areas, articles_per_category)]

-----------------------------------------------------------------------------
(* Initial state: an empty article pool, two active subscribers, default settings *)

Init ==
    /\ articles = <<>>
    /\ subscribers = SignedUp
    /\ article_sends = <<>>
    /\ email_campaigns = <<>>
    /\ admin_settings = [fallback_enabled |-> TRUE]
    /\ last_fallback_usage = {}
    /\ sel = NoSelection
    /\ run = IdleRun
    /\ now = 0
    /\ ret = NoCall
    /\ other = IdleRun
    /\ scheduler = Stopped

-----------------------------------------------------------------------------
(* Store operations, callable at any time by the scraper and the admin screens *)

\* DatabaseManager.add_article; dt is the time passed since the last insertion.
\* Urls are numbered in the order in which they are first seen.
AddArticle(url, issue_area, dt) ==
    /\ url <= Len(articles) + 1
    /\ ArticleByUrl(articles, url) # 0 \/ Len(articles) < MaxArticles
    /\ articles' = add_article(articles, url, issue_area, now + dt)
    /\ now' = IF ArticleByUrl(articles, url) = 0 THEN now + dt ELSE now
    /\ ret' = [op |-> "add_article", url |-> url, value |-> ArticleByUrl(articles', url)]
    /\ sel' = NoSelection
    /\ UNCHANGED <<subscribers, article_sends, email_campaigns, admin_settings,
                   last_fallback_usage, run, other,
                   scheduler>>

\* DatabaseManager.exclude_article
ExcludeArticle(article_id, excluded) ==
    /\ articles' = exclude_article(articles, article_id, excluded)
    /\ ret' = NoCall
    /\ sel' = NoSelection
    /\ UNCHANGED <<subscribers, article_sends, email_campaigns, admin_settings,
                   last_fallback_usage, run, now, other,
                   scheduler>>

\* AdminDashboard._render_settings: set_setting('fallback_enabled', ...)
SetSetting(value) ==
    /\ admin_settings' = [admin_settings EXCEPT !.fallback_enabled = value]
    /\ ret' = NoCall
    /\ sel' = NoSelection
    /\ UNCHANGED <<articles, subscribers, article_sends, email_campaigns,
                   last_fallback_usage, run, now, other,
                   scheduler>>

-----------------------------------------------------------------------------
(* EmailService.send_newsletter_campaign, one step per statement that reads  *)
(* or writes the store                                                       *)

\* lines 49-65: read the active subscribers, create the campaign row
StartCampaign(campaign_type, manual_articles) ==
    /\ run.pc = "idle"
    /\ Len(email_campaigns) < MaxCampaigns
    /\ LET subs == get_all_active_subscribers(subscribers)
       IN  IF subs = <<>>
           THEN /\ ret' = [op |-> "send_newsletter_campaign", success |-> FALSE]
                /\ UNCHANGED <<email_campaigns, run>>
           ELSE /\ email_campaigns' = create_campaign(email_campaigns, campaign_type)
                /\ run' = [IdleRun EXCEPT !.pc = "loop",
                                          !.campaign_id = Len(email_campaigns) + 1,
                                          !.manual_articles = manual_articles,
                                          !.queue = subs, !.total = Len(subs)]
                /\ ret' = NoCall
    /\ sel' = NoSelection
    /\ UNCHANGED <<articles, subscribers, article_sends, admin_settings,
                   last_fallback_usage, now, other,
                   scheduler>>

\* generate_newsletter_for_subscriber lines 25-29: select, give up when every
\* list is empty (the campaign loop then counts a failed send)
SelectForSubscriber ==
    /\ run.pc = "loop" /\ run.queue # <<>> /\ run.manual_articles = <<>>
    /\ LET subscriber == Head(run.queue)
           selection == Selection(subscriber.id, subscriber.issue_areas, DefaultPerCategory)
           chosen == ItemsArticles(selection.res, DictKeys(subscriber.issue_areas))
       IN  /\ sel' = selection
           /\ last_fallback_usage' = NextFallbackUsage(selection.res)
           /\ IF chosen = <<>>
              THEN run' = AfterSubscriber(run, FALSE)
              ELSE run' = [run EXCEPT !.pc = "record", !.cur = subscriber.id,
                                      !.selected = selection.res,
                                      !.todo = [i \in 1..Len(chosen) |-> chosen[i].id]]
    /\ ret' = NoCall
    /\ UNCHANGED <<articles, subscribers, article_sends, email_campaigns,
                   admin_settings, now, other,
                   scheduler>>

\* generate_newsletter_for_subscriber lines 32-35: one record_article_send
RecordNext ==
    /\ run.pc = "record" /\ run.todo # <<>>
    /\ article_sends' = record_article_send(article_sends, run.cur, Head(run.todo),
                                            run.campaign_id)
    /\ run' = [run EXCEPT !.todo = Tail(run.todo)]
    /\ ret' = NoCall
    /\ sel' = NoSelection
    /\ UNCHANGED <<articles, subscribers, email_campaigns, admin_settings,
                   last_fallback_usage, now, other,
                   scheduler>>

\* lines 38-40 and 78-89: the html is generated and saved and the send is
\* counted; when writing the file raises, the except branch counts a failure
SaveEmail ==
    /\ run.pc = "record" /\ run.todo = <<>>
    /\ \E saved \in BOOLEAN : /\ run' = AfterSubscriber(run, saved)
                              /\ ret' = SavedEmail(run, saved)
    /\ sel' = NoSelection
    /\ UNCHANGED <<articles, subscribers, article_sends, email_campaigns, admin_settings,
                   last_fallback_usage, now, other,
                   scheduler>>

\* _generate_manual_campaign_email is entered for the next subscriber
BeginManual ==
    /\ run.pc = "loop" /\ run.queue # <<>> /\ run.manual_articles # <<>>
    /\ run' = [run EXCEPT !.pc = "manual", !.cur = Head(run.queue).id,
                          !.todo = run.manual_articles, !.found = 0]
    /\ ret' = NoCall
    /\ UNCHANGED <<articles, subscribers, article_sends, email_campaigns, admin_settings,
                   last_fallback_usage, sel, now, other,
                   scheduler>>

\* _generate_manual_campaign_email lines 291-310: look the id up, record when found
ManualNext ==
    /\ run.pc = "manual" /\ run.todo # <<>>
    /\ LET article_id == Head(run.todo)
           row == article_id \in 1..Len(articles) /\ articles[article_id] # DeletedRow
       IN  /\ article_sends' = IF row
                               THEN record_article_send(article_sends, run.cur, article_id,
                                                        run.campaign_id)
                               ELSE article_sends
           /\ run' = [run EXCEPT !.todo = Tail(run.todo),
                                 !.found = IF row THEN run.found + 1 ELSE run.found]
    /\ ret' = NoCall
    /\ sel' = NoSelection
    /\ UNCHANGED <<articles, subscribers, email_campaigns, admin_settings,
                   last_fallback_usage, now, other,
                   scheduler>>

\* lines 314-315 and 78-89: no article found returns None and counts a failure,
\* as does a save that raises
ManualDone ==
    /\ run.pc = "manual" /\ run.todo = <<>>
    /\ \E saved \in BOOLEAN : run' = AfterSubscriber(run, run.found > 0 /\ saved)
    /\ ret' = NoCall
    /\ UNCHANGED <<articles, subscribers, article_sends, email_campaigns, admin_settings,
                   last_fallback_usage, sel, now, other,
                   scheduler>>

\* lines 92-112: mark the campaign sent when somebody got an email, return
FinishCampaign ==
    /\ run.pc = "loop" /\ run.queue = <<>>
    /\ email_campaigns' = IF run.successful_sends > 0
                          THEN mark_campaign_sent(email_campaigns, run.campaign_id)
                          ELSE email_campaigns
    /\ run' = IdleRun
    /\ ret' = [op |-> "send_newsletter_campaign", success |-> TRUE,
               campaign_id |-> run.campaign_id, total_subscribers |-> run.total,
               successful_sends |-> run.successful_sends,
               failed_sends |-> run.failed_sends]
    /\ sel' = NoSelection
    /\ UNCHANGED <<articles, subscribers, article_sends, admin_settings,
                   last_fallback_usage, now, other,
                   scheduler>>

-----------------------------------------------------------------------------
(* A second send_newsletter_campaign in another thread: the campaign an admin *)
(* triggers while the scheduler's thread runs one. It has its own EmailService *)
(* and ArticleSelector and shares the store.                                   *)

\* lines 49-65 in the other thread
OtherStart(campaign_type) ==
    /\ other.pc = "idle"
    /\ Len(email_campaigns) < MaxCampaigns
    /\ LET subs == get_all_active_subscribers(subscribers)
       IN  /\ subs # <<>>
           /\ email_campaigns' = create_campaign(email_campaigns, campaign_type)
           /\ other' = [IdleRun EXCEPT !.pc = "loop",
                                       !.campaign_id = Len(email_campaigns) + 1,
                                       !.queue = subs, !.total = Len(subs)]
    /\ ret' = NoCall
    /\ sel' = NoSelection
    /\ UNCHANGED <<articles, subscribers, article_sends, admin_settings,
                   last_fallback_usage, run, now, scheduler>>

\* generate_newsletter_for_subscriber lines 25-29 in the other thread
OtherSelect ==
    /\ other.pc = "loop" /\ other.queue # <<>>
    /\ LET subscriber == Head(other.queue)
           selection == Selection(subscriber.id, subscriber.issue_areas, DefaultPerCategory)
           chosen == ItemsArticles(selection.res, DictKeys(subscriber.issue_areas))
       IN  IF chosen = <<>>
           THEN other' = AfterSubscriber(other, FALSE)
           ELSE other' = [other EXCEPT !.pc = "record", !.cur = subscriber.id,
                                       !.selected = selection.res,
                                       !.todo = [i \in 1..Len(chosen) |-> chosen[i].id]]
    /\ ret' = NoCall
    /\ UNCHANGED <<articles, subscribers, article_sends, email_campaigns, admin_settings,
                   last_fallback_usage, sel, run, now, scheduler>>

\* generate_newsletter_for_subscriber lines 32-35 in the other thread
OtherRecord ==
    /\ other.pc = "record" /\ other.todo # <<>>
    /\ article_sends' = record_article_send(article_sends, other.cur, Head(other.todo),
                                            other.campaign_id)
    /\ other' = [other EXCEPT !.todo = Tail(other.todo)]
    /\ ret' = NoCall
    /\ sel' = NoSelection
    /\ UNCHANGED <<articles, subscribers, email_campaigns, admin_settings,
                   last_fallback_usage, run, now, scheduler>>

\* lines 38-40 and 78-89 in the other thread
OtherSave ==
    /\ other.pc = "record" /\ other.todo = <<>>
    /\ \E saved \in BOOLEAN : /\ other' = AfterSubscriber(other, saved)
                              /\ ret' = SavedEmail(other, saved)
    /\ sel' = NoSelection
    /\ UNCHANGED <<articles, subscribers, article_sends, email_campaigns, admin_settings,
                   last_fallback_usage, run, now, scheduler>>

\* lines 92-112 in the other thread
OtherFinish ==
    /\ other.pc = "loop" /\ other.queue = <<>>
    /\ email_campaigns' = IF other.successful_sends > 0
                          THEN mark_campaign_sent(email_campaigns, other.campaign_id)
                          ELSE email_campaigns
    /\ other' = IdleRun
    /\ ret' = [op |-> "send_newsletter_campaign", success |-> TRUE,
               campaign_id |-> other.campaign_id, total_subscribers |-> other.total,
               successful_sends |-> other.successful_sends,
               failed_sends |-> other.failed_sends]
    /\ sel' = NoSelection
    /\ UNCHANGED <<articles, subscribers, article_sends, admin_settings,
                   last_fallback_usage, run, now, scheduler>>

Next ==
    \/ \E url \in 1..MaxArticles, issue_area \in ArticleTopics, dt \in 0..1 :
          AddArticle(url, issue_area, dt)
    \/ \E article_id \in ArticleIdInputs, excluded \in BOOLEAN :
          ExcludeArticle(article_id, excluded)
    \/ StartCampaign("scheduled", <<>>)
    \/ \E manual_articles \in ManualLists : StartCampaign("manual", manual_articles)
    \/ SelectForSubscriber
    \/ RecordNext
    \/ SaveEmail
    \/ BeginManual
    \/ ManualNext
    \/ ManualDone
    \/ FinishCampaign

Spec == Init /\ [][Next]_vars

-----------------------------------------------------------------------------
(* The selection engine called directly, as a caller of ArticleSelector may:  *)
(* select_articles_for_subscriber(subscriber, articles_per_category) on a     *)
(* pool the scraper has filled, record_article_send for the chosen articles,  *)
(* exclusions and the settings screen in between                              *)

\* pools by the number of articles per issue area: the small ones, and two in
\* which one issue area holds more fresh articles than the query returns
Layouts ==
    {[h |-> h, m |-> m, c |-> c] : h \in 0..MaxSmall, m \in 0..1, c \in 0..1}
    \cup {[h |-> PoolLimit + 1, m |-> 1, c |-> 0], [h |-> 0, m |-> PoolLimit + 1, c |-> 1]}

\* the pool after the scraper inserted c, then m, then h articles; with tie the
\* insertions came two to a second
PoolOf(layout, tie) ==
    [a \in 1..(layout.c + layout.m + layout.h) |->
        [url |-> a,
         issue_area |-> IF a <= layout.c THEN "Community Development"
                        ELSE IF a <= layout.c + layout.m THEN "Mental Health"
                        ELSE "Health",
         scraped_at |-> IF tie THEN (a + 1) \div 2 ELSE a,
         excluded |-> FALSE]]

PerTopicInputs == (1..MaxPerTopic) \cup {PoolLimit + 1}

\* the ids the subscribers table gives out
SubscriberIds == 1..(Len(SignedUp) + MaxResubscribes)

SelInit ==
    /\ \E layout \in Layouts, tie \in BOOLEAN : articles = PoolOf(layout, tie)
    /\ subscribers = SignedUp
    /\ article_sends = <<>>
    /\ email_campaigns = <<>>
    /\ admin_settings = [fallback_enabled |-> TRUE]
    /\ last_fallback_usage = {}
    /\ sel = NoSelection
    /\ run = IdleRun
    /\ now = IF articles = <<>> THEN 0 ELSE articles[Len(articles)].scraped_at
    /\ ret = NoCall
    /\ other = IdleRun
    /\ scheduler = Stopped

\* ArticleSelector.select_articles_for_subscriber(subscriber, articles_per_category)
Select(subscriber_id, articles_per_category) ==
    /\ subscriber_id \in 1..Len(subscribers) /\ ~subscribers[subscriber_id].deleted
    /\ sel' = Selection(subscriber_id, subscribers[subscriber_id].issue_areas,
                        articles_per_category)
    /\ last_fallback_usage' = NextFallbackUsage(sel'.res)
    /\ ret' = [op |-> "select_articles_for_subscriber",
               repeated |-> sel.sub = subscriber_id /\ sel.apt = articles_per_category]
    /\ UNCHANGED <<articles, subscribers, article_sends, email_campaigns, admin_settings,
                   run, now, other,
                   scheduler>>

\* the real send of the last selection: every chosen article is recorded, each
\* campaign id records one selection
RecordSelection(campaign_id) ==
    /\ sel.sub # 0
    /\ \A k \in 1..Len(article_sends) : article_sends[k].campaign_id # campaign_id
    /\ LET chosen == ItemsArticles(sel.res, DictKeys(sel.issue_areas))
       IN  /\ chosen # <<>>
           /\ article_sends' = RecordAll(article_sends, sel.sub, chosen, campaign_id)
    /\ ret' = NoCall
    /\ sel' = NoSelection
    /\ UNCHANGED <<articles, subscribers, email_campaigns, admin_settings,
                   last_fallback_usage, run, now, other,
                   scheduler>>

\* the emails typed into the preview box and the forms, the last one unknown
EmailInputs == 1..(Len(SignedUp) + 1)

\* the three issue areas a form submits
IssueAreaInputs == {SignedUp[s].issue_areas : s \in 1..Len(SignedUp)}

\* a preview that records what it shows, as a real send does
PreviewRecording(subscriber_email) ==
    LET subscriber_id == get_subscriber_by_email(subscribers, subscriber_email)
    IN  IF subscriber_id = 0
        THEN /\ ret' = [op |-> "preview_newsletter_for_subscriber", value |-> "None"]
             /\ UNCHANGED <<articles, subscribers, article_sends, email_campaigns,
                            admin_settings, last_fallback_usage, sel, run, now, other,
                   scheduler>>
        ELSE /\ Len(email_campaigns) < MaxCampaigns
             /\ email_campaigns' = create_campaign(email_campaigns, "preview")
             /\ sel' = Selection(subscriber_id, subscribers[subscriber_id].issue_areas,
                                 DefaultPerCategory)
             /\ last_fallback_usage' = NextFallbackUsage(sel'.res)
             /\ article_sends' = RecordAll(article_sends, subscriber_id,
                                           ItemsArticles(sel'.res, DictKeys(sel'.issue_areas)),
                                           Len(email_campaigns'))
             /\ ret' = [op |-> "preview_newsletter_for_subscriber", value |-> "html"]
             /\ UNCHANGED <<articles, subscribers, admin_settings, run, now, other,
                   scheduler>>

\* EmailService.preview_newsletter_for_subscriber: None for an unknown email,
\* else a campaign row of type preview, the selection and its html
Preview(subscriber_email) ==
    LET subscriber_id == get_subscriber_by_email(subscribers, subscriber_email)
    IN  IF subscriber_id = 0
        THEN /\ ret' = [op |-> "preview_newsletter_for_subscriber", value |-> "None"]
             /\ UNCHANGED <<articles, subscribers, article_sends, email_campaigns,
                            admin_settings, last_fallback_usage, sel, run, now, other,
                   scheduler>>
        ELSE /\ Len(email_campaigns) < MaxCampaigns
             /\ email_campaigns' = create_campaign(email_campaigns, "preview")
             /\ sel' = Selection(subscriber_id, subscribers[subscriber_id].issue_areas,
                                 DefaultPerCategory)
             /\ last_fallback_usage' = NextFallbackUsage(sel'.res)
             /\ ret' = [op |-> "preview_newsletter_for_subscriber", value |-> "html"]
             /\ UNCHANGED <<articles, subscribers, article_sends, admin_settings, run, now, other,
                   scheduler>>

\* DatabaseManager.add_subscriber from the signup and the update form
AddSubscriber(email, issue_areas) ==
    /\ Len(subscribers) < Len(SignedUp) + MaxResubscribes
    /\ subscribers' = add_subscriber(subscribers, email, issue_areas)
    /\ ret' = [op |-> "add_subscriber", value |-> TRUE]
    /\ sel' = NoSelection
    /\ UNCHANGED <<articles, article_sends, email_campaigns, admin_settings,
                   last_fallback_usage, run, now, other,
                   scheduler>>

ExcludedCount == Cardinality({a \in 1..Len(articles) : articles[a].excluded})

\* exclude_article on one of the newest rows or on the id after the last row,
\* with at most MaxExcluded rows excluded at once
ExcludeSome(article_id, excluded) ==
    /\ excluded => ExcludedCount < MaxExcluded
    /\ ExcludeArticle(article_id, excluded)

SelNext ==
    \/ \E subscriber_id \in 1..Len(SignedUp), articles_per_category \in PerTopicInputs :
          Select(subscriber_id, articles_per_category)
    \/ \E campaign_id \in 1..MaxRounds : RecordSelection(campaign_id)
    \/ \E back \in 0..MaxBack, excluded \in BOOLEAN :
          ExcludeSome(Len(articles) + 1 - back, excluded)
    \/ \E value \in BOOLEAN : SetSetting(value)

SelSpec == SelInit /\ [][SelNext]_vars

-----------------------------------------------------------------------------
(* The admin and subscription screens on a filled pool: previews, signups    *)
(* and preference updates, and the selection and recording of a real send    *)

\* the pools in which no issue area holds more articles than the query returns
SmallLayouts == {layout \in Layouts : layout.h <= MaxSmall /\ layout.m <= MaxSmall}

ScreenInit ==
    /\ \E layout \in SmallLayouts, tie \in BOOLEAN : articles = PoolOf(layout, tie)
    /\ subscribers = SignedUp
    /\ article_sends = <<>>
    /\ email_campaigns = <<>>
    /\ admin_settings = [fallback_enabled |-> TRUE]
    /\ last_fallback_usage = {}
    /\ sel = NoSelection
    /\ run = IdleRun
    /\ now = IF articles = <<>> THEN 0 ELSE articles[Len(articles)].scraped_at
    /\ ret = NoCall
    /\ other = IdleRun
    /\ scheduler = Stopped

ScreenNext ==
    \/ \E subscriber_id \in SubscriberIds, articles_per_category \in 1..MaxPerTopic :
          Select(subscriber_id, articles_per_category)
    \/ \E campaign_id \in 1..MaxRounds : RecordSelection(campaign_id)
    \/ \E subscriber_email \in EmailInputs : Preview(subscriber_email)
    \/ \E email \in 1..Len(SignedUp), issue_areas \in IssueAreaInputs :
          AddSubscriber(email, issue_areas)

ScreenSpec == ScreenInit /\ [][ScreenNext]_vars

-----------------------------------------------------------------------------
(* Campaign runs that stop part-way and are run again, on a filled pool      *)

\* the process running send_newsletter_campaign stops: its locals are gone,
\* what it committed to the store stays
Crash ==
    /\ run.pc # "idle"
    /\ run' = IdleRun
    /\ ret' = [op |-> "stopped", campaign_id |-> run.campaign_id, subscriber_id |-> run.cur,
               chosen |-> SelectedIds(run.selected)]
    /\ sel' = NoSelection
    /\ UNCHANGED <<articles, subscribers, article_sends, email_campaigns, admin_settings,
                   last_fallback_usage, now, other, scheduler>>

RetryNext ==
    \/ StartCampaign("scheduled", <<>>)
    \/ SelectForSubscriber
    \/ RecordNext
    \/ SaveEmail
    \/ FinishCampaign
    \/ Crash

RetrySpec == ScreenInit /\ [][RetryNext]_vars

-----------------------------------------------------------------------------
(* A campaign run and the retention cleanup, called from different threads    *)

\* SolutionsStoryScraper.cleanup_old_articles, from the weekly job or from the
\* admin's maintenance button
Cleanup(days_to_keep) ==
    /\ articles' = cleanup_old_articles(articles, article_sends, now - days_to_keep)
    /\ ret' = [op |-> "cleanup_old_articles",
               value |-> Cardinality({a \in 1..Len(articles) : articles'[a] # articles[a]})]
    /\ sel' = NoSelection
    /\ UNCHANGED <<subscribers, article_sends, email_campaigns, admin_settings,
                   last_fallback_usage, run, now, other, scheduler>>

CleanupNext ==
    \/ StartCampaign("scheduled", <<>>)
    \/ SelectForSubscriber
    \/ RecordNext
    \/ SaveEmail
    \/ FinishCampaign
    \/ \E days_to_keep \in 0..MaxKeep : Cleanup(days_to_keep)
    \/ \E url \in 1..MaxSmall : AddArticle(url, "Health", 1)

CleanupSpec == ScreenInit /\ [][CleanupNext]_vars

-----------------------------------------------------------------------------
(* SchedulerService: start_scheduler, stop_scheduler and the loop threads     *)

\* start_scheduler: returns at once when is_running, else sets the flag and
\* starts a thread on _run_scheduler
StartScheduler ==
    IF scheduler.is_running
    THEN /\ ret' = [op |-> "start_scheduler", started |-> FALSE]
         /\ UNCHANGED <<articles, subscribers, article_sends, email_campaigns,
                        admin_settings, last_fallback_usage, sel, run, now, other,
                        scheduler>>
    ELSE /\ Len(scheduler.threads) < MaxThreads
         /\ scheduler' = [is_running |-> TRUE,
                          scheduler_thread |-> Len(scheduler.threads) + 1,
                          threads |-> Append(scheduler.threads, "while")]
         /\ ret' = [op |-> "start_scheduler", started |-> TRUE]
         /\ UNCHANGED <<articles, subscribers, article_sends, email_campaigns,
                        admin_settings, last_fallback_usage, sel, run, now, other>>

\* stop_scheduler: clears the flag and waits for the thread for five seconds
\* at most; the call returns whether or not the thread has left its loop
StopScheduler ==
    /\ scheduler' = [scheduler EXCEPT !.is_running = FALSE]
    /\ ret' = [op |-> "stop_scheduler",
               alive |-> /\ scheduler.scheduler_thread # 0
                         /\ scheduler.threads[scheduler.scheduler_thread] # "exited"]
    /\ UNCHANGED <<articles, subscribers, article_sends, email_campaigns, admin_settings,
                   last_fallback_usage, sel, run, now, other>>

\* _run_scheduler: while self.is_running
LoopTest(thread) ==
    /\ thread \in 1..Len(scheduler.threads) /\ scheduler.threads[thread] = "while"
    /\ scheduler' = [scheduler EXCEPT !.threads[thread] =
                         IF scheduler.is_running THEN "run_pending" ELSE "exited"]
    /\ UNCHANGED <<articles, subscribers, article_sends, email_campaigns, admin_settings,
                   last_fallback_usage, sel, run, now, ret, other>>

\* _run_scheduler: schedule.run_pending() returns or raises; time.sleep(60) follows
LoopRunPending(thread) ==
    /\ thread \in 1..Len(scheduler.threads) /\ scheduler.threads[thread] = "run_pending"
    /\ scheduler' = [scheduler EXCEPT !.threads[thread] = "sleep"]
    /\ UNCHANGED <<articles, subscribers, article_sends, email_campaigns, admin_settings,
                   last_fallback_usage, sel, run, now, ret, other>>

\* _run_scheduler: time.sleep(60) returns
LoopWake(thread) ==
    /\ thread \in 1..Len(scheduler.threads) /\ scheduler.threads[thread] = "sleep"
    /\ scheduler' = [scheduler EXCEPT !.threads[thread] = "while"]
    /\ UNCHANGED <<articles, subscribers, article_sends, email_campaigns, admin_settings,
                   last_fallback_usage, sel, run, now, ret, other>>

SchedNext ==
    \/ StartScheduler
    \/ StopScheduler
    \/ \E thread \in 1..MaxThreads : LoopTest(thread)
    \/ \E thread \in 1..MaxThreads : LoopRunPending(thread)
    \/ \E thread \in 1..MaxThreads : LoopWake(thread)

SchedSpec == Init /\ [][SchedNext]_vars

-----------------------------------------------------------------------------
(* Campaign runs in which the store may refuse a write                        *)

\* record_article_send lines 311-320: the INSERT raises, the except branch
\* prints the error and the call returns as after a write
RecordFails ==
    /\ run.pc = "record" /\ run.todo # <<>>
    /\ run' = [run EXCEPT !.todo = Tail(run.todo)]
    /\ ret' = NoCall
    /\ sel' = NoSelection
    /\ UNCHANGED <<articles, subscribers, article_sends, email_campaigns, admin_settings,
                   last_fallback_usage, now, other, scheduler>>

FaultNext ==
    \/ StartCampaign("scheduled", <<>>)
    \/ SelectForSubscriber
    \/ RecordNext
    \/ RecordFails
    \/ SaveEmail
    \/ FinishCampaign

FaultSpec == ScreenInit /\ [][FaultNext]_vars

-----------------------------------------------------------------------------
(* Two campaigns at once on a filled pool: the weekly newsletter of the      *)
(* scheduler's thread and a campaign triggered by an admin                    *)

ThreadsNext ==
    \/ StartCampaign("scheduled", <<>>)
    \/ SelectForSubscriber
    \/ RecordNext
    \/ SaveEmail
    \/ FinishCampaign
    \/ OtherStart("manual")
    \/ OtherSelect
    \/ OtherRecord
    \/ OtherSave
    \/ OtherFinish

ThreadsSpec == ScreenInit /\ [][ThreadsNext]_vars

-----------------------------------------------------------------------------
(* FallbackManager called directly: one lookup for each issue area, known or *)
(* not, and each max_fallbacks                                                *)

\* the issue areas of the forms and one string that is none of them
TopicInputs == AVAILABLE_ISSUE_AREAS \cup {"Unknown Topic"}

LookupInit ==
    /\ \E primary_category \in TopicInputs, max_fallbacks \in 0..MaxLookup :
          ret = [op |-> "call", primary_category |-> primary_category,
                 max_fallbacks |-> max_fallbacks]
    /\ articles = <<>>
    /\ subscribers = SignedUp
    /\ article_sends = <<>>
    /\ email_campaigns = <<>>
    /\ admin_settings = [fallback_enabled |-> TRUE]
    /\ last_fallback_usage = {}
    /\ sel = NoSelection
    /\ run = IdleRun
    /\ now = 0
    /\ other = IdleRun
    /\ scheduler = Stopped

\* FallbackManager.get_fallback_categories(primary_category, max_fallbacks)
GetFallbackCategories ==
    /\ ret.op = "call"
    /\ ret' = [op |-> "get_fallback_categories", primary_category |-> ret.primary_category,
               max_fallbacks |-> ret.max_fallbacks,
               value |-> get_fallback_categories(ret.primary_category, ret.max_fallbacks)]
    /\ UNCHANGED <<articles, subscribers, article_sends, email_campaigns, admin_settings,
                   last_fallback_usage, sel, run, now, other,
                   scheduler>>

\* FallbackManager.get_all_related_categories(primary_category)
GetAllRelatedCategories ==
    /\ ret.op = "call"
    /\ ret' = [op |-> "get_all_related_categories",
               primary_category |-> ret.primary_category,
               value |-> get_all_related_categories(ret.primary_category)]
    /\ UNCHANGED <<articles, subscribers, article_sends, email_campaigns, admin_settings,
                   last_fallback_usage, sel, run, now, other,
                   scheduler>>

LookupNext == GetFallbackCategories \/ GetAllRelatedCategories

LookupSpec == LookupInit /\ [][LookupNext]_vars

-----------------------------------------------------------------------------
(* Properties of the campaign specification Spec *)

\* the articles of a SelectionResult, over all its issue areas
ChosenArticles(selection) ==
    UNION {Range(selection.res[t]) : t \in DOMAIN selection.res}

ChosenIds(articles_t) == {articles_t[i].id : i \in 1..Len(articles_t)}

\* the issue areas whose fresh articles are candidates for issue area t
RelatedSet(t) == Range(get_all_related_categories(t))

\* C1: no repeat. A SelectionResult for subscriber S holds no article that has a
\* send record for S: send records are never deleted, so an article selected
\* for S and recorded is in no later SelectionResult for S.
NoRepeat ==
    sel.sub # 0 =>
        \A a \in ChosenArticles(sel) : ~HasSendRow(article_sends, sel.sub, a.id)

\* C1 witness: a campaign has just selected for a subscriber who was sent, in
\* an earlier campaign, an article that would otherwise still be a candidate
NoRepeatWitness ==
    /\ sel.sub # 0 /\ run.pc = "record" /\ run.cur = sel.sub
    /\ \E k \in 1..Len(article_sends) :
          /\ article_sends[k].subscriber_id = sel.sub
          /\ article_sends[k].campaign_id < run.campaign_id
          /\ ~articles[article_sends[k].article_id].excluded
          /\ \E t \in Range(sel.issue_areas) :
                articles[article_sends[k].article_id].issue_area \in RelatedSet(t)

\* C2 (as claimed): the lists of two different requested issue areas of one
\* SelectionResult share no article
NoArticleTwice ==
    \A t1 \in DOMAIN sel.res, t2 \in DOMAIN sel.res :
        t1 # t2 => ChosenIds(sel.res[t1]) \cap ChosenIds(sel.res[t2]) = {}

\* C3: no article of a SelectionResult is excluded in the store the selection
\* was made from, under any issue area, primary or fallback pick
ExcludedNeverSelected ==
    sel.sub # 0 => \A a \in ChosenArticles(sel) : ~articles[a.id].excluded

\* C3 witness: an excluded article of a requested issue area, never sent to the
\* subscriber, was passed over and a fallback pick stands in its place
ExcludedNeverSelectedWitness ==
    /\ sel.sub # 0 /\ run.pc = "record"
    /\ \E t \in Range(sel.issue_areas), a \in 1..Len(articles) :
          /\ articles[a].issue_area = t /\ articles[a].excluded
          /\ ~HasSendRow(article_sends, sel.sub, a)
          /\ sel.res[t] # <<>> /\ sel.res[t][1].issue_area # t

\* C4: at most one send record for each (subscriber_id, article_id) pair
OneSendRecordPerPair ==
    \A i \in 1..Len(article_sends), j \in 1..Len(article_sends) :
        (/\ article_sends[i].subscriber_id = article_sends[j].subscriber_id
         /\ article_sends[i].article_id = article_sends[j].article_id) => i = j

\* C4 witness: a scheduled campaign recorded article 1, and a manual campaign
\* that listed article 1 again was then sent to every subscriber
OneSendRecordPerPairWitness ==
    /\ run.pc = "idle" /\ Len(email_campaigns) = 2
    /\ email_campaigns[1].campaign_type = "scheduled"
    /\ email_campaigns[2] = [campaign_type |-> "manual", status |-> "sent"]
    /\ \E k \in 1..Len(article_sends) :
          article_sends[k].article_id = 1 /\ article_sends[k].campaign_id = 1

\* C5: record_article_send for a pair that has a send record leaves the send
\* records as they were, the campaign id of the existing record included
RecordIsIdempotent ==
    [][((RecordNext \/ ManualNext) /\ HasSendRow(article_sends, run.cur, Head(run.todo)))
          => article_sends' = article_sends]_vars

\* C5 witness: a manual campaign has gone through its list for a subscriber who
\* holds a send record of a listed article from another campaign
RecordIsIdempotentWitness ==
    /\ run.pc = "manual" /\ run.todo = <<>> /\ run.found > 0
    /\ \E k \in 1..Len(article_sends) :
          /\ article_sends[k].subscriber_id = run.cur
          /\ article_sends[k].article_id \in Range(run.manual_articles)
          /\ article_sends[k].campaign_id # run.campaign_id

-----------------------------------------------------------------------------
(* Properties of the selection specification SelSpec. While sel holds a      *)
(* SelectionResult the store is as it was when the selection was made.        *)

\* the issue area the store holds for a chosen article
OwnTopic(a) == articles[a.id].issue_area

\* fresh for the selected subscriber: not excluded and without a send record
Fresh(issue_area) == FreshIds(articles, article_sends, sel.sub, issue_area)

\* the issue area itself, then its fallbacks as FALLBACK_MAPPING lists them
ListedOrder(t) ==
    <<t>> \o (IF t \in DOMAIN FALLBACK_MAPPING THEN FALLBACK_MAPPING[t] ELSE <<>>)

Pos(seq, x) == CHOOSE i \in 1..Len(seq) : seq[i] = x

\* the result list lst for issue area t: at most articles_per_category entries,
\* t's own articles first and then the fallbacks in listed order, each issue
\* area's picks newest first and no older than what was left of it
ListedAndNewestFirst(t, lst) ==
    /\ Len(lst) <= sel.apt
    /\ \A i \in 1..Len(lst) : OwnTopic(lst[i]) \in Range(ListedOrder(t))
    /\ \A i \in 1..Len(lst), j \in 1..Len(lst) :
          i < j => /\ Pos(ListedOrder(t), OwnTopic(lst[i])) <= Pos(ListedOrder(t), OwnTopic(lst[j]))
                   /\ OwnTopic(lst[i]) = OwnTopic(lst[j])
                         => articles[lst[i].id].scraped_at >= articles[lst[j].id].scraped_at
    /\ \A i \in 1..Len(lst) :
          \A b \in Fresh(OwnTopic(lst[i])) \ ChosenIds(lst) :
              articles[b].scraped_at <= articles[lst[i].id].scraped_at

\* every fresh article of the issue area is in the list
AllTaken(issue_area, lst) == Fresh(issue_area) \subseteq ChosenIds(lst)

\* every fresh article of the issue area is in the list, or as many of them as
\* the store returns for one issue area
AllOrPoolTaken(issue_area, lst) ==
    \/ AllTaken(issue_area, lst)
    \/ Cardinality(Fresh(issue_area) \cap ChosenIds(lst)) >= PoolLimit

\* the fallbacks listed before the issue area of the pick lst[i]
EarlierFallbacks(t, lst, i) ==
    {ListedOrder(t)[k] : k \in 2..(Pos(ListedOrder(t), OwnTopic(lst[i])) - 1)}

\* C6 (as claimed): fallback ordering, a later-listed fallback being used only
\* when every fresh article of each earlier-listed fallback has been taken
FallbackOrderingAsClaimed ==
    sel.sub # 0 =>
        \A t \in DOMAIN sel.res :
            /\ ListedAndNewestFirst(t, sel.res[t])
            /\ \A i \in 1..Len(sel.res[t]) :
                  \A c \in EarlierFallbacks(t, sel.res[t], i) : AllTaken(c, sel.res[t])

\* C6 (amended): fallback ordering, a later-listed fallback being used only when
\* every fresh article of each earlier-listed fallback has been taken, or the
\* PoolLimit newest of them
FallbackOrdering ==
    sel.sub # 0 =>
        \A t \in DOMAIN sel.res :
            /\ ListedAndNewestFirst(t, sel.res[t])
            /\ \A i \in 1..Len(sel.res[t]) :
                  \A c \in EarlierFallbacks(t, sel.res[t], i) : AllOrPoolTaken(c, sel.res[t])

\* C6 witness: a list holding picks of the first and of the second fallback
FallbackOrderingWitness ==
    /\ sel.sub # 0
    /\ \E t \in DOMAIN sel.res :
          \E i \in 1..Len(sel.res[t]), j \in 1..Len(sel.res[t]) :
              /\ Pos(ListedOrder(t), OwnTopic(sel.res[t][i])) = 2
              /\ Pos(ListedOrder(t), OwnTopic(sel.res[t][j])) = 3

\* C7 (as claimed): a list holds an article of another issue area only if every
\* fresh article of its own issue area is in it
FallbackOnlyWhenPrimaryTakenAsClaimed ==
    sel.sub # 0 =>
        \A t \in DOMAIN sel.res :
            (\E i \in 1..Len(sel.res[t]) : OwnTopic(sel.res[t][i]) # t)
                => AllTaken(t, sel.res[t])

\* C7 (amended): a list holds an article of another issue area only if every
\* fresh article of its own issue area is in it, or the PoolLimit newest of them
FallbackOnlyWhenPrimaryTaken ==
    sel.sub # 0 =>
        \A t \in DOMAIN sel.res :
            (\E i \in 1..Len(sel.res[t]) : OwnTopic(sel.res[t][i]) # t)
                => AllOrPoolTaken(t, sel.res[t])

\* C7 witness: a list that holds primary picks and a fallback pick
FallbackOnlyWhenPrimaryTakenWitness ==
    /\ sel.sub # 0
    /\ \E t \in DOMAIN sel.res :
          \E i \in 1..Len(sel.res[t]), j \in 1..Len(sel.res[t]) :
              OwnTopic(sel.res[t][i]) = t /\ OwnTopic(sel.res[t][j]) # t

\* C8: was_fallback_used(T) is true exactly when T's list holds an article of
\* another issue area or is empty
FallbackFlag ==
    sel.sub # 0 =>
        \A t \in Range(sel.issue_areas) :
            was_fallback_used(t) <=>
                \/ sel.res[t] = <<>>
                \/ \E i \in 1..Len(sel.res[t]) : OwnTopic(sel.res[t][i]) # t

\* C8 witness: one selection with an empty list, a list with a fallback pick and
\* a list of primary picks only
FallbackFlagWitness ==
    /\ sel.sub # 0
    /\ \E t1 \in DOMAIN sel.res, t2 \in DOMAIN sel.res, t3 \in DOMAIN sel.res :
          /\ sel.res[t1] = <<>> /\ was_fallback_used(t1)
          /\ sel.res[t2] # <<>> /\ was_fallback_used(t2)
          /\ sel.res[t3] # <<>> /\ ~was_fallback_used(t3)

\* the number of fresh articles over a list of issue areas, each counted up to limit
RECURSIVE FreshCount(_, _)
FreshCount(issue_areas, limit) ==
    IF issue_areas = <<>> THEN 0
    ELSE Min(limit, Cardinality(Fresh(Head(issue_areas)))) + FreshCount(Tail(issue_areas), limit)

\* C9 (as claimed): the list of T has min(articles_per_category, number of
\* fresh articles of T and of T's fallbacks) entries
PartialFulfilmentAsClaimed ==
    sel.sub # 0 =>
        \A t \in DOMAIN sel.res :
            Len(sel.res[t]) = Min(sel.apt, FreshCount(ListedOrder(t), Len(articles)))

\* C9 (amended): the list of T has min(articles_per_category, number of fresh
\* articles of T and of T's fallbacks, at most PoolLimit counted per issue
\* area) entries
PartialFulfilment ==
    sel.sub # 0 =>
        \A t \in DOMAIN sel.res :
            Len(sel.res[t]) = Min(sel.apt, FreshCount(ListedOrder(t), PoolLimit))

\* C9 witness: one list shorter than asked for but not empty, another one empty
PartialFulfilmentWitness ==
    /\ sel.sub # 0
    /\ \E t1 \in DOMAIN sel.res, t2 \in DOMAIN sel.res :
          /\ 0 < Len(sel.res[t1]) /\ Len(sel.res[t1]) < sel.apt
          /\ sel.res[t2] = <<>>

\* C10 (as claimed): with fallback_enabled false, every pick is a primary pick
PrimaryOnlyWhenFallbackDisabled ==
    (sel.sub # 0 /\ ~admin_settings.fallback_enabled) =>
        \A t \in DOMAIN sel.res :
            \A i \in 1..Len(sel.res[t]) : OwnTopic(sel.res[t][i]) = t

-----------------------------------------------------------------------------
(* Properties of the store operations under the campaign specification Spec *)

-----------------------------------------------------------------------------
(* Properties of the screens specification ScreenSpec *)

PreviewWritesNoSendRecord ==
    [][\A subscriber_email \in EmailInputs :
          Preview(subscriber_email) => article_sends' = article_sends]_vars

\* C12 witness: a preview has shown articles to a subscriber who holds send
\* records, and none of the articles shown has a send record
PreviewWritesNoSendRecordWitness ==
    /\ ret.op = "preview_newsletter_for_subscriber" /\ ret.value = "html"
    /\ sel.sub # 0 /\ ChosenArticles(sel) # {}
    /\ \A a \in ChosenArticles(sel) : ~HasSendRow(article_sends, sel.sub, a.id)
    /\ \E k \in 1..Len(article_sends) : article_sends[k].subscriber_id = sel.sub

-----------------------------------------------------------------------------
(* Properties of the lookup specification LookupSpec *)

\* the fixed list of an issue area, empty for one without an entry
ListedFallbacks(t) == IF t \in DOMAIN FALLBACK_MAPPING THEN FALLBACK_MAPPING[t] ELSE <<>>

\* C14: get_fallback_categories returns the first max_fallbacks entries of the
\* issue area's list in listed order, the empty list for an issue area without
\* an entry ('Education' and unknown strings); get_all_related_categories
\* returns the issue area followed by its first DefaultMaxFallbacks fallbacks;
\* no list returned for an issue area holds the issue area itself
FallbackLookup ==
    /\ ret.op = "get_fallback_categories" =>
          /\ Len(ret.value) = Min(ret.max_fallbacks, Len(ListedFallbacks(ret.primary_category)))
          /\ \A i \in 1..Len(ret.value) : ret.value[i] = ListedFallbacks(ret.primary_category)[i]
          /\ ret.primary_category \in {"Education", "Unknown Topic"} => ret.value = <<>>
          /\ ret.primary_category \notin Range(ret.value)
    /\ ret.op = "get_all_related_categories" =>
          /\ Len(ret.value) =
                1 + Min(DefaultMaxFallbacks, Len(ListedFallbacks(ret.primary_category)))
          /\ ret.value[1] = ret.primary_category
          /\ \A i \in 2..Len(ret.value) :
                ret.value[i] = ListedFallbacks(ret.primary_category)[i - 1]

\* C14 witness: a lookup that cut a list of three fallbacks down to two
FallbackLookupWitness ==
    /\ ret.op = "get_fallback_categories"
    /\ Len(ListedFallbacks(ret.primary_category)) = 3
    /\ ret.max_fallbacks = 2 /\ Len(ret.value) = 2

-----------------------------------------------------------------------------
(* Properties of the campaign loop under the campaign specification Spec *)

\* the list has an article of another issue area than t, or no article
FallbackOrEmpty(t, articles_t) ==
    \/ articles_t = <<>>
    \/ \E i \in 1..Len(articles_t) : articles_t[i].issue_area # t

\* C15: was_fallback_used answers for the last select call. No issue area is
\* flagged before a campaign has selected; after a select only issue areas of
\* the subscriber selected for are flagged; when the email of subscriber S is
\* rendered, an issue area of S is flagged exactly when S's own list for it
\* is empty or holds an article of another issue area
FlagsOfLastSelection ==
    /\ email_campaigns = <<>> => last_fallback_usage = {}
    /\ sel.sub # 0 => last_fallback_usage \subseteq Range(sel.issue_areas)
    /\ run.pc = "record" =>
          /\ last_fallback_usage \subseteq Range(subscribers[run.cur].issue_areas)
          /\ \A t \in Range(subscribers[run.cur].issue_areas) :
                was_fallback_used(t) <=> FallbackOrEmpty(t, run.selected[t])

\* C15 witness: the email of the second subscriber of a campaign is about to
\* be rendered with a flag of its own, the first one's selection having
\* flagged 'Education', which the second subscriber does not have
FlagsOfLastSelectionWitness ==
    /\ run.pc = "record" /\ run.todo = <<>> /\ run.cur = 2
    /\ "Education" \notin Range(subscribers[2].issue_areas)
    /\ "Education" \in Range(subscribers[1].issue_areas)
    /\ last_fallback_usage # {}

\* C16: every subscriber read at the start of a campaign is counted once, as a
\* successful or as a failed send, whatever failed before: while the loop
\* runs the two counters and the subscribers still to come add up to the
\* total, and so do the counters of the summary returned
CampaignCountsEveryone ==
    /\ run.pc # "idle" =>
          run.successful_sends + run.failed_sends + Len(run.queue) = run.total
    /\ (ret.op = "send_newsletter_campaign" /\ ret.success) =>
          ret.successful_sends + ret.failed_sends = ret.total_subscribers

\* C16 witness: the second subscriber is being processed after the first one's
\* articles were recorded and the saving of the first one's email raised
CampaignCountsEveryoneWitness ==
    /\ run.pc = "record" /\ run.cur = 2 /\ run.failed_sends = 1
    /\ \E k \in 1..Len(article_sends) :
          /\ article_sends[k].subscriber_id = 1
          /\ article_sends[k].campaign_id = run.campaign_id

\* C17 (as claimed): a subscriber whose lists are all empty is not counted in
\* failed_sends
ScarcityIsNotFailure ==
    [][(SelectForSubscriber /\ \A t \in DOMAIN sel'.res : sel'.res[t] = <<>>)
          => run'.failed_sends = run.failed_sends]_vars

\* C18 (as claimed): a manual campaign that looked up a listed article id the
\* store does not hold counts no successful send for the subscriber
UnknownArticleIsReported ==
    [][(ManualDone /\ run.found < Len(run.manual_articles))
          => run'.successful_sends = run.successful_sends]_vars

\* C20 (as claimed): a manual campaign puts no article into the email of a
\* subscriber who holds a send record of it from another campaign
ManualSkipsSentArticles ==
    [][(/\ ManualNext
        /\ \E k \in 1..Len(article_sends) :
              /\ article_sends[k].subscriber_id = run.cur
              /\ article_sends[k].article_id = Head(run.todo)
              /\ article_sends[k].campaign_id # run.campaign_id)
          => run'.found = run.found]_vars

-----------------------------------------------------------------------------
(* Properties of signups under the screens specification ScreenSpec *)

\* C19 (as claimed): a SelectionResult holds no article with a send record
\* made for the email of the subscriber selected for, also after add_subscriber
\* was called again for that email
NoRepeatAfterUpdate ==
    sel.sub # 0 =>
        \A a \in ChosenArticles(sel) :
            \A k \in 1..Len(article_sends) :
                subscribers[article_sends[k].subscriber_id].email = subscribers[sel.sub].email
                    => article_sends[k].article_id # a.id

-----------------------------------------------------------------------------
(* Properties of two campaigns at once, under ThreadsSpec *)

\* run r has finished the subscriber, and every subscriber it has finished got
\* an email
DeliveredTo(r, subscriber_id) ==
    /\ r.pc # "idle" /\ r.successful_sends >= 1 /\ r.failed_sends = 0
    /\ r.cur # subscriber_id
    /\ \A i \in 1..Len(r.queue) : r.queue[i].id # subscriber_id

\* C21 (as claimed): no email is saved for a subscriber with an article that
\* the campaign running in the other thread has recorded for, and delivered
\* to, that subscriber
NoArticleInBothRuns ==
    (ret.op = "_save_email_to_file" /\ ret.saved) =>
        \A a \in ret.articles : \A r \in {run, other} :
            ~(/\ r.campaign_id # ret.campaign_id
              /\ DeliveredTo(r, ret.subscriber_id)
              /\ \E k \in 1..Len(article_sends) :
                    article_sends[k] = [subscriber_id |-> ret.subscriber_id,
                                        article_id |-> a, campaign_id |-> r.campaign_id])

-----------------------------------------------------------------------------
(* Properties of interrupted and repeated campaign runs, under RetrySpec *)

\* the send record of the pair carries the campaign id
HasSendRowOf(subscriber_id, article_id, campaign_id) ==
    \E k \in 1..Len(article_sends) :
        article_sends[k] = [subscriber_id |-> subscriber_id, article_id |-> article_id,
                            campaign_id |-> campaign_id]

\* C22: every article of an email saved in a campaign has its send record
\* from that campaign. A send record keeps the campaign that wrote it first
\* and an email holds only articles recorded before it is saved, so an
\* article delivered to the subscriber in an earlier, interrupted run is in
\* no email of a later run.
DeliveredOnceAcrossRetries ==
    (ret.op = "_save_email_to_file" /\ ret.saved) =>
        \A a \in ret.articles : HasSendRowOf(ret.subscriber_id, a, ret.campaign_id)

\* C22 witness: the second campaign delivers to the second subscriber, who was
\* never reached by the first campaign: that one stopped after it had
\* recorded articles for the first subscriber
DeliveredOnceAcrossRetriesWitness ==
    /\ ret.op = "_save_email_to_file" /\ ret.saved /\ ret.articles # {}
    /\ ret.campaign_id = 2 /\ ret.subscriber_id = 2
    /\ email_campaigns[1].status = "pending"
    /\ \E k \in 1..Len(article_sends) :
          article_sends[k].subscriber_id = 1 /\ article_sends[k].campaign_id = 1
    /\ \A k \in 1..Len(article_sends) :
          article_sends[k].subscriber_id = 2 => article_sends[k].campaign_id = 2

\* C23 (as claimed): when a run stops, either all or none of the articles
\* chosen for the subscriber it was at have a send record
AllOrNoneRecorded ==
    ret.op = "stopped" =>
        LET recorded == {a \in ret.chosen :
                            HasSendRowOf(ret.subscriber_id, a, ret.campaign_id)}
        IN  recorded = {} \/ recorded = ret.chosen

SendRecordImpliesDelivery ==
    (ret.op = "_save_email_to_file" /\ ~ret.saved) =>
        \A k \in 1..Len(article_sends) :
            ~(/\ article_sends[k].subscriber_id = ret.subscriber_id
              /\ article_sends[k].campaign_id = ret.campaign_id)

-----------------------------------------------------------------------------
(* Properties of campaign runs with refused writes, under FaultSpec *)

\* C25 (as claimed): no email is saved for a subscriber with an article that
\* has no send record for the subscriber
StorageFailureIsSurfaced ==
    (ret.op = "_save_email_to_file" /\ ret.saved) =>
        \A a \in ret.articles : HasSendRow(article_sends, ret.subscriber_id, a)

-----------------------------------------------------------------------------
(* Properties of previews and of the selector's reads and writes, under ScreenSpec *)

\* C26 (as claimed): a call of preview_newsletter_for_subscriber leaves the
\* campaigns, the send records, the articles and the subscribers as they were
PreviewChangesNothing ==
    [][ret'.op = "preview_newsletter_for_subscriber" =>
          /\ email_campaigns' = email_campaigns
          /\ article_sends' = article_sends
          /\ articles' = articles
          /\ subscribers' = subscribers]_vars

\* the subscribers other than the one whose send records a step wrote
OtherSubscribers ==
    {s \in 1..Len(subscribers) :
        ~subscribers[s].deleted /\ s # article_sends'[Len(article_sends')].subscriber_id}

\* C27: a step that writes send records of one subscriber leaves the fresh
\* articles and the selection of every other subscriber as they were, and a
\* call of select_articles_for_subscriber changes no article and no send record
SubscribersAreIndependent ==
    [][/\ article_sends' # article_sends =>
             \A s \in OtherSubscribers :
                 /\ get_fresh_articles_for_subscriber(articles', article_sends', s,
                                                      subscribers[s].issue_areas)
                    = get_fresh_articles_for_subscriber(articles, article_sends, s,
                                                        subscribers[s].issue_areas)
                 /\ \A articles_per_category \in 1..MaxPerTopic :
                       select_articles_for_subscriber(articles', article_sends', s,
                                                      subscribers[s].issue_areas,
                                                      articles_per_category)
                       = select_articles_for_subscriber(articles, article_sends, s,
                                                        subscribers[s].issue_areas,
                                                        articles_per_category)
       /\ ret'.op = "select_articles_for_subscriber" =>
             articles' = articles /\ article_sends' = article_sends]_vars

\* C27 witness: an article recorded as sent to the first subscriber is among
\* the articles just selected for the second one
SubscribersAreIndependentWitness ==
    /\ ret.op = "select_articles_for_subscriber" /\ sel.sub = 2
    /\ \E k \in 1..Len(article_sends) :
          /\ article_sends[k].subscriber_id = 1
          /\ \E t \in DOMAIN sel.res : \E i \in 1..Len(sel.res[t]) :
                sel.res[t][i].id = article_sends[k].article_id

-----------------------------------------------------------------------------
(* Properties of the retention cleanup, under CleanupSpec *)

\* C28 (as claimed): the article of every send record is a row of articles
SentArticlesAreKept ==
    \A k \in 1..Len(article_sends) : articles[article_sends[k].article_id] # DeletedRow

-----------------------------------------------------------------------------
(* Properties of the scheduler, under SchedSpec *)

\* C30 (as claimed): no two threads are inside the body of the _run_scheduler
\* loop at a time
AtMostOneSchedulerLoop ==
    Cardinality({thread \in 1..Len(scheduler.threads) :
                    scheduler.threads[thread] \in {"run_pending", "sleep"}}) <= 1

====
